---- MODULE Spec2Model ----
(***************************************************************************)
(* Link maintenance tools of doc/Structure: the forward-link verifier      *)
(* (verify_forward_links.py), the backlink verifier (verify_backlinks.py)  *)
(* and the link-path normalizer (fix_all_links.py).                        *)
(*                                                                         *)
(* A file's text is a sequence of characters.  Every character is a        *)
(* one-character string, except two symbols that stand for a fixed literal *)
(* of the sources: "H" is the header "===== Backlinks =====" and "S" is    *)
(* the sentinel "(no backlinks)".  A Document is the tuple of its path     *)
(* segments below STRUCTURE_DIR with the ".txt" suffix removed; a segment  *)
(* is itself a sequence of characters.                                     *)
(***************************************************************************)
EXTENDS Integers, Sequences, FiniteSets, TLC

VARIABLES text, last, call

vars == <<text, last, call>>

(* ------------------------------------------------------------------ *)
(* Bounds of the model                                                 *)
(* ------------------------------------------------------------------ *)

\* Largest number of Documents in a corpus.
MaxDocs == 3

\* Largest number of content links in a corpus (over all its Documents).
MaxLinks == 2

\* Largest number of Documents of a corpus that start with a Backlinks Block.
MaxBlocks == 1

\* Largest number of links in a corpus the normalizer starts from.
MaxNormLinks == 1

(* ------------------------------------------------------------------ *)
(* Paths                                                               *)
(* ------------------------------------------------------------------ *)

\* The Documents of the run: get_all_txt_files() walks the tree once.
files == DOMAIN text

\* Path.stem: the file name without ".txt".
Stem(f) == f[Len(f)]

\* Path.parent, relative to STRUCTURE_DIR (<<>> is the corpus root itself).
Parent(f) == SubSeq(f, 1, Len(f) - 1)

\* name_to_files[name]: the Documents whose stem is name.  The source keeps a
\* list in walk order; only its length and its members are ever used.
NameToFiles(F, name) == {f \in F : Stem(f) = name}

\* str.split(':')
RECURSIVE SplitFrom(_, _, _)
SplitFrom(s, i, cur) ==
    IF i > Len(s) THEN <<cur>>
    ELSE IF s[i] = ":" THEN <<cur>> \o SplitFrom(s, i + 1, <<>>)
    ELSE SplitFrom(s, i + 1, Append(cur, s[i]))

Split(s) == SplitFrom(s, 1, <<>>)

\* ':'.join(parts)
RECURSIVE Join(_)
Join(parts) ==
    IF Len(parts) = 0 THEN <<>>
    ELSE IF Len(parts) = 1 THEN parts[1]
    ELSE parts[1] \o <<":">> \o Join(Tail(parts))

\* ':' in link
HasColon(s) == \E i \in 1..Len(s) : s[i] = ":"

\* STRUCTURE_DIR / part / ... / (part + '.txt'): pathlib drops an empty
\* directory segment (Path('/r') / '' = Path('/r')).
QualifiedTarget(parts) ==
    SelectSeq(SubSeq(parts, 1, Len(parts) - 1), LAMBDA p : p # <<>>)
        \o <<parts[Len(parts)]>>

(* ------------------------------------------------------------------ *)
(* Link Parser                                                         *)
(* ------------------------------------------------------------------ *)

\* The first index k >= i with s[k] in stops, or Len(s) + 1: where a greedy
\* negated character class stops.
RECURSIVE ScanTo(_, _, _)
ScanTo(s, i, stops) ==
    IF i > Len(s) THEN i
    ELSE IF s[i] \in stops THEN i
    ELSE ScanTo(s, i + 1, stops)

\* No display name (None); the link pattern never captures an empty label.
NoLabel == <<>>

NoMatch == [ok |-> FALSE, end |-> 0, link_path |-> <<>>, display_name |-> NoLabel]

\* One attempt of \[\[(?!\+)([^\]|]+)(?:\|([^\]]+))?\]\] at index i; without the
\* lookahead when skip_child is FALSE.  'end' is the index after the match.
\* The two classes exclude the character that must follow them, so no shorter
\* capture can make a failed attempt succeed.
MatchLinkAt(s, i, skip_child) ==
    IF ~(i + 1 <= Len(s) /\ s[i] = "[" /\ s[i + 1] = "[") THEN NoMatch
    ELSE IF skip_child /\ i + 2 <= Len(s) /\ s[i + 2] = "+" THEN NoMatch
    ELSE LET t == ScanTo(s, i + 2, {"]", "|"})
             u == ScanTo(s, t + 1, {"]"})
         IN  IF t = i + 2 \/ t > Len(s) THEN NoMatch
             ELSE IF s[t] = "]"
             THEN IF t + 1 <= Len(s) /\ s[t + 1] = "]"
                  THEN [ok |-> TRUE, end |-> t + 2,
                        link_path |-> SubSeq(s, i + 2, t - 1),
                        display_name |-> NoLabel]
                  ELSE NoMatch
             ELSE IF u > t + 1 /\ u + 1 <= Len(s) /\ s[u + 1] = "]"
                  THEN [ok |-> TRUE, end |-> u + 2,
                        link_path |-> SubSeq(s, i + 2, t - 1),
                        display_name |-> SubSeq(s, t + 1, u - 1)]
                  ELSE NoMatch

\* re.finditer: leftmost matches, each search resuming where the last ended.
RECURSIVE ScanLinks(_, _, _)
ScanLinks(s, i, skip_child) ==
    IF i > Len(s) THEN <<>>
    ELSE LET m == MatchLinkAt(s, i, skip_child)
         IN  IF m.ok
             THEN <<[start |-> i, end |-> m.end, link_path |-> m.link_path,
                     display_name |-> m.display_name]>>
                      \o ScanLinks(s, m.end, skip_child)
             ELSE ScanLinks(s, i + 1, skip_child)

\* verify_forward_links.find_all_links: start is the index of the first
\* character of the match, end the index after its last one.
find_all_links(content) == ScanLinks(content, 1, TRUE)

\* f.read() of a file opened with open(path, 'r'): the text of the file with
\* every "\r\n" and every other "\r" given as "\n" (universal newlines).  The
\* write of open(path, 'w') puts "\n" as os.linesep, which is "\n" itself on
\* the POSIX systems the tools are written for.
RECURSIVE ReadText(_)
ReadText(bytes) ==
    IF Len(bytes) = 0 THEN <<>>
    ELSE IF bytes[1] = "\r"
    THEN IF Len(bytes) >= 2 /\ bytes[2] = "\n"
         THEN <<"\n">> \o ReadText(SubSeq(bytes, 3, Len(bytes)))
         ELSE <<"\n">> \o ReadText(Tail(bytes))
    ELSE <<bytes[1]>> \o ReadText(Tail(bytes))

\* The texts the open(path, 'r') calls of a run give for the files T.
ReadAll(T) == [f \in DOMAIN T |-> ReadText(T[f])]

\* link_info['full_match']
FullMatch(content, link_info) ==
    SubSeq(content, link_info.start, link_info.end - 1)

\* Start of re.search(r'===== Backlinks =====.*', content, re.DOTALL), or
\* Len(content) + 1 when the header is absent.
HeaderStart(content) == ScanTo(content, 1, {"H"})

\* verify_forward_links.get_content_section: <<content, backlinks>>.
get_content_section(content) ==
    LET h == HeaderStart(content)
    IN  <<SubSeq(content, 1, h - 1), SubSeq(content, h, Len(content))>>

\* verify_backlinks.extract_links: the link targets of the content region.
extract_links(content) ==
    LET links == ScanLinks(SubSeq(content, 1, HeaderStart(content) - 1), 1, TRUE)
    IN  [k \in 1..Len(links) |-> links[k].link_path]


(* ------------------------------------------------------------------ *)
(* Link Resolver                                                       *)
(* ------------------------------------------------------------------ *)

NoFile == <<>>

\* resolve_link_target with the name index consulted before the directory of
\* the source for a simple link.
resolve_link_target_IndexFirst(link_path, source_file, F) ==
    LET direct == IF HasColon(link_path)
                  THEN QualifiedTarget(Split(link_path))
                  ELSE Parent(source_file) \o <<link_path>>
        name == IF HasColon(link_path)
                THEN Split(link_path)[Len(Split(link_path))]
                ELSE link_path
        matches == NameToFiles(F, name)
    IN  IF HasColon(link_path) /\ direct \in F
        THEN [kind |-> "resolved", target |-> direct, candidates |-> {}]
        ELSE IF Cardinality(matches) = 1
        THEN [kind |-> "resolved", target |-> CHOOSE m \in matches : TRUE,
              candidates |-> {}]
        ELSE IF Cardinality(matches) > 1
        THEN [kind |-> "ambiguous", target |-> NoFile, candidates |-> matches]
        ELSE IF direct \in F
        THEN [kind |-> "resolved", target |-> direct, candidates |-> {}]
        ELSE [kind |-> "unresolved", target |-> NoFile, candidates |-> {}]

\* verify_forward_links.resolve_link_target: (target, True), (matches, False)
\* or (None, False), as a tagged record.
resolve_link_target(link_path, source_file, F) ==
    LET direct == IF HasColon(link_path)
                  THEN QualifiedTarget(Split(link_path))
                  ELSE Parent(source_file) \o <<link_path>>
        name == IF HasColon(link_path)
                THEN Split(link_path)[Len(Split(link_path))]
                ELSE link_path
        matches == NameToFiles(F, name)
    IN  IF direct \in F
        THEN [kind |-> "resolved", target |-> direct, candidates |-> {}]
        ELSE IF Cardinality(matches) = 1
        THEN [kind |-> "resolved", target |-> CHOOSE m \in matches : TRUE,
              candidates |-> {}]
        ELSE IF Cardinality(matches) > 1
        THEN [kind |-> "ambiguous", target |-> NoFile, candidates |-> matches]
        ELSE [kind |-> "unresolved", target |-> NoFile, candidates |-> {}]

\* resolve_link with the name fallback for simple links only: a qualified
\* link whose literal path is no file resolves to nothing.
resolve_link_NoFallback(link, source_file, F) ==
    LET direct == IF HasColon(link)
                  THEN QualifiedTarget(Split(link))
                  ELSE Parent(source_file) \o <<link>>
        matches == NameToFiles(F, link)
    IN  IF direct \in F THEN direct
        ELSE IF ~HasColon(link) /\ Cardinality(matches) = 1
        THEN CHOOSE m \in matches : TRUE
        ELSE NoFile

\* verify_backlinks.resolve_link: the target, or None (NoFile).
resolve_link(link, source_file, F) ==
    LET direct == IF HasColon(link)
                  THEN QualifiedTarget(Split(link))
                  ELSE Parent(source_file) \o <<link>>
        target_name == IF HasColon(link)
                       THEN Split(link)[Len(Split(link))]
                       ELSE link
        matches == NameToFiles(F, target_name)
    IN  IF direct \in F THEN direct
        ELSE IF Cardinality(matches) = 1 THEN CHOOSE m \in matches : TRUE
        ELSE NoFile

(* ------------------------------------------------------------------ *)
(* Canonical Formatter                                                 *)
(* ------------------------------------------------------------------ *)

\* verify_forward_links.get_correct_link_format
get_correct_link_format(source_file, target_file, display_name) ==
    LET target_name == Stem(target_file)
        needs_custom_display ==
            display_name # NoLabel /\ display_name # target_name
        path == Join(target_file)
    IN  IF Parent(source_file) = Parent(target_file)
        THEN IF needs_custom_display
             THEN <<"[", "[">> \o target_name \o <<"|">> \o display_name
                      \o <<"]", "]">>
             ELSE <<"[", "[">> \o target_name \o <<"]", "]">>
        ELSE IF needs_custom_display
             THEN <<"[", "[">> \o path \o <<"|">> \o display_name
                      \o <<"]", "]">>
             ELSE <<"[", "[">> \o path \o <<"|">> \o target_name
                      \o <<"]", "]">>

\* get_link_format without the label on a qualified link.
get_link_format_Unlabelled(source_file, target_file) ==
    IF Parent(source_file) = Parent(target_file)
    THEN <<"[", "[">> \o Stem(target_file) \o <<"]", "]">>
    ELSE <<"[", "[">> \o Join(target_file) \o <<"]", "]">>

\* verify_backlinks.get_link_format
get_link_format(source_file, target_file) ==
    IF Parent(source_file) = Parent(target_file)
    THEN <<"[", "[">> \o Stem(target_file) \o <<"]", "]">>
    ELSE <<"[", "[">> \o Join(target_file) \o <<"|">> \o Stem(target_file)
             \o <<"]", "]">>

(* ------------------------------------------------------------------ *)
(* Forward-link verifier                                               *)
(* ------------------------------------------------------------------ *)

\* IssueOf with an Ambiguous link treated as a link to one of its candidates.
IssueOf_PickCandidate(content_section, link_info, source_file, r) ==
    LET target_file == IF r.kind = "ambiguous"
                       THEN CHOOSE c \in r.candidates : TRUE
                       ELSE r.target
        correct_format ==
            get_correct_link_format(source_file, target_file,
                                    link_info.display_name)
    IN  IF r.kind = "unresolved"
        THEN [type |-> "unresolved", link_info |-> link_info,
              correct_format |-> <<>>]
        ELSE IF FullMatch(content_section, link_info) # correct_format
        THEN [type |-> "wrong_format", link_info |-> link_info,
              correct_format |-> correct_format]
        ELSE [type |-> "ok", link_info |-> link_info, correct_format |-> <<>>]

\* The body of the loop of check_and_fix_file after the call of
\* resolve_link_target: the issue recorded for a link whose resolution is r
\* ("ok": none).
IssueOf(content_section, link_info, source_file, r) ==
    LET correct_format ==
            get_correct_link_format(source_file, r.target, link_info.display_name)
    IN  IF r.kind = "unresolved"
        THEN [type |-> "unresolved", link_info |-> link_info,
              correct_format |-> <<>>]
        ELSE IF r.kind = "ambiguous"
        THEN [type |-> "ambiguous", link_info |-> link_info,
              correct_format |-> <<>>]
        ELSE IF FullMatch(content_section, link_info) # correct_format
        THEN [type |-> "wrong_format", link_info |-> link_info,
              correct_format |-> correct_format]
        ELSE [type |-> "ok", link_info |-> link_info, correct_format |-> <<>>]

\* One iteration of the loop of check_and_fix_file over the links of the
\* content region of source_file.
ClassifyLink(content_section, link_info, source_file, F) ==
    IssueOf(content_section, link_info, source_file,
            resolve_link_target(link_info.link_path, source_file, F))

\* The issues list of check_and_fix_file, in link order.
FileIssues(content, source_file, F) ==
    LET content_section == SubSeq(content, 1, HeaderStart(content) - 1)
        links == find_all_links(content_section)
        all == [k \in 1..Len(links) |->
                   ClassifyLink(content_section, links[k], source_file, F)]
    IN  SelectSeq(all, LAMBDA i : i.type # "ok")

\* new_content[:start] + correct_format + new_content[end:]
ReplaceSpan(new_content, issue) ==
    SubSeq(new_content, 1, issue.link_info.start - 1)
        \o issue.correct_format
        \o SubSeq(new_content, issue.link_info.end, Len(new_content))

RECURSIVE ApplyFixes_Ascending(_, _, _)
RECURSIVE ApplyFixes(_, _, _)

\* The fix loop without reverse=True: the first issue is replaced first, and
\* the later ones at the spans computed before it.
ApplyFixes_Ascending(new_content, fixable_issues, k) ==
    IF k = 0 THEN new_content
    ELSE ReplaceSpan(ApplyFixes_Ascending(new_content, fixable_issues, k - 1),
                     fixable_issues[k])

\* The fix loop over fixable_issues sorted by start, descending: the issues
\* are found in ascending start order, so the loop runs from the last one.
ApplyFixes(new_content, fixable_issues, k) ==
    IF k = 0 THEN new_content
    ELSE ApplyFixes(ReplaceSpan(new_content, fixable_issues[k]),
                    fixable_issues, k - 1)

\* check_and_fix_file after the issues are collected: the fix loop and the
\* write, when fix_mode is set and an issue is fixable.
FixIssues(content, issues, fix_mode) ==
    LET sections == get_content_section(content)
        fixable_issues == SelectSeq(issues, LAMBDA i : i.type = "wrong_format")
        fixed_count == IF fix_mode THEN Len(fixable_issues) ELSE 0
    IN  [issues |-> issues,
         fixed |-> fixed_count,
         written |-> fixed_count > 0,
         content |-> IF fixed_count > 0
                     THEN ApplyFixes(sections[1], fixable_issues,
                                     Len(fixable_issues)) \o sections[2]
                     ELSE content]

\* verify_forward_links.check_and_fix_file: the issues, the number fixed and
\* the text of the file afterwards.
check_and_fix_file(content, source_file, F, fix_mode) ==
    FixIssues(content, FileIssues(content, source_file, F), fix_mode)

RECURSIVE SumOver(_, _)
SumOver(S, g) ==
    IF S = {} THEN 0
    ELSE LET e == CHOOSE x \in S : TRUE IN g[e] + SumOver(S \ {e}, g)

\* The record of the last run: the tool and its mode, the texts it started from
\* (a history value, for the properties), its exit status, the files it
\* wrote, its counts and what it reported.
NoRun ==
    [tool |-> "none", fix |-> FALSE, before |-> <<>>, exit |-> 0,
     written |-> {}, found |-> 0, fixed |-> 0, reported |-> {}, issues |-> {}]

\* The exit status taken from the issues the fix pass left.
ForwardExit_AfterFix(total_issues, total_fixed) ==
    IF total_issues - total_fixed = 0 THEN 0 ELSE 1

\* verify_forward_links.main, the summary: 0 when no issue was found.
ForwardExit(total_issues, total_fixed) ==
    IF total_issues = 0 THEN 0 ELSE 1

\* verify_forward_links.main after the loop over the files: the totals, the
\* summary and the exit status; res holds the result of each file.
ForwardSummary(fix_mode, res) ==
    LET F == DOMAIN res
        total_issues == SumOver(F, [f \in F |-> Len(res[f].issues)])
        total_fixed == SumOver(F, [f \in F |-> res[f].fixed])
    IN  /\ text' = [f \in F |->
                      IF res[f].written THEN res[f].content ELSE text[f]]
        /\ last' = [tool |-> "fwd", fix |-> fix_mode, before |-> text,
                    exit |-> ForwardExit(total_issues, total_fixed),
                    written |-> {f \in F : res[f].written},
                    found |-> total_issues, fixed |-> total_fixed,
                    reported |-> UNION {{<<f, res[f].issues[k].link_info.start,
                                           res[f].issues[k].type>> :
                                             k \in 1..Len(res[f].issues)} :
                                        f \in F},
                    issues |-> {}]
        /\ UNCHANGED call

\* verify_forward_links.main: every file is checked against the name index built
\* before the loop; a file's result depends on its own text only.
ForwardRun(fix_mode) ==
    ForwardSummary(fix_mode,
                   [f \in files |->
                       check_and_fix_file(ReadText(text[f]), f, files,
                                          fix_mode)])

(* ------------------------------------------------------------------ *)
(* Backlink verifier                                                   *)
(* ------------------------------------------------------------------ *)

\* Start of re.search(r'===== Backlinks =====\n(.*)', content, re.DOTALL):
\* the first header that a newline follows, or 0 when there is none.
RECURSIVE BlockStart(_, _)
BlockStart(content, i) ==
    IF i + 1 > Len(content) THEN 0
    ELSE IF content[i] = "H" /\ content[i + 1] = "\n" THEN i
    ELSE BlockStart(content, i + 1)

HasBlock(content) == BlockStart(content, 1) # 0

\* backlinks_match.group(1) of main: the text after the header line.
BlockBody(content) ==
    SubSeq(content, BlockStart(content, 1) + 2, Len(content))

\* re.findall(r'\[\[([^\]|]+)(?:\|[^\]]+)?\]\]', body): the pattern of the
\* block has no child-page lookahead.
current_links(content) ==
    LET links == ScanLinks(BlockBody(content), 1, FALSE)
    IN  [k \in 1..Len(links) |-> links[k].link_path]

\* current_set of main: the resolved links of the block, resolved from the
\* Document that holds the block; a link that resolves to nothing is dropped.
current_set(content, target_file, F) ==
    LET links == current_links(content)
    IN  {resolve_link(links[k], target_file, F) : k \in 1..Len(links)} \ {NoFile}

\* is_no_backlinks of main ('root production' does not occur in the texts
\* of the model).
is_no_backlinks(content) ==
    LET body == BlockBody(content)
    IN  \E k \in 1..Len(body) : body[k] = "S"

\* The Documents the content links of source_file resolve to (first pass of
\* main, one iteration of the loop over files).
LinkedFrom(T, source_file) ==
    LET links == extract_links(T[source_file])
    IN  {resolve_link(links[k], source_file, DOMAIN T) : k \in 1..Len(links)}
            \ {NoFile}

\* reverse_links of main, first pass: for every Document, the sources with at
\* least one content link that resolves to it.
reverse_links(T) ==
    LET linked == [source_file \in DOMAIN T |-> LinkedFrom(T, source_file)]
    IN  [target_file \in DOMAIN T |->
            {source_file \in DOMAIN T : target_file \in linked[source_file]}]

\* The comparison of main, second pass, for one Document that has a block.
HasIssue(content, current, expected_set) ==
    current # expected_set
        \/ (is_no_backlinks(content) /\ expected_set # {})

\* The Documents main appends to issues.
IssueFiles(T) ==
    LET expected == reverse_links(T)
    IN  {f \in DOMAIN T :
            HasBlock(T[f])
                /\ HasIssue(T[f], current_set(T[f], f, DOMAIN T), expected[f])}

\* The characters of file names, in code-point order.
CodeOrder == <<"L", "a", "b", "t", "x", "y">>

Rank(c) == CHOOSE i \in 1..Len(CodeOrder) : CodeOrder[i] = c

\* Python's str '<' on two stems.
RECURSIVE StemLess(_, _)
StemLess(s, t) ==
    IF Len(t) = 0 THEN FALSE
    ELSE IF Len(s) = 0 THEN TRUE
    ELSE IF s[1] # t[1] THEN Rank(s[1]) < Rank(t[1])
    ELSE StemLess(Tail(s), Tail(t))

RECURSIVE Perms(_)
Perms(S) ==
    IF S = {} THEN {<<>>}
    ELSE UNION {{<<x>> \o p : p \in Perms(S \ {x})} : x \in S}

\* The orders sorted(..., key=lambda x: x.stem) can give a set of Documents:
\* Documents of equal stem keep the iteration order of the set, which the
\* interpreter's hash seed decides.  order is a sequence of the Documents
\* that are expected in the block of some issue.
IsStemSorted(order) ==
    \A i, j \in 1..Len(order) : i < j => ~ StemLess(Stem(order[j]), Stem(order[i]))

SortedOrders(F) == {order \in Perms(F) : IsStemSorted(order)}

RECURSIVE Reverse(_)
Reverse(q) == IF Len(q) = 0 THEN <<>> ELSE Append(Reverse(Tail(q)), q[1])

\* The sort with reverse=True.
SortByStem_Descending(E, order) == Reverse(SelectSeq(order, LAMBDA f : f \in E))

\* sorted(set(expected_sources), key=lambda x: x.stem)
SortByStem(E, order) == SelectSeq(order, LAMBDA f : f \in E)

\* '\n'.join(links) + '\n' over get_link_format(target_file, source).
RECURSIVE BacklinkLines(_, _)
BacklinkLines(target_file, sources) ==
    IF Len(sources) = 0 THEN <<>>
    ELSE get_link_format(target_file, sources[1]) \o <<"\n">>
             \o BacklinkLines(target_file, Tail(sources))

\* verify_backlinks.fix_backlinks_in_file: the text of the file afterwards.
fix_backlinks_in_file(content, target_file, expected_sources) ==
    IF ~HasBlock(content) THEN content
    ELSE SubSeq(content, 1, BlockStart(content, 1) - 1)
             \o <<"H", "\n">>
             \o (IF Len(expected_sources) = 0
                 THEN <<"S", "\n">>
                 ELSE BacklinkLines(target_file, expected_sources))

\* verify_backlinks.main, the report: 1 when issues were found, fixed or not.
BacklinkExit(issues, fix_mode) ==
    IF issues # {} THEN 1 ELSE 0

\* verify_backlinks.main after the second pass: the report, the fixes and the
\* exit status; T holds the texts read, bad the Documents appended to issues,
\* cur the current_set of every Document.  fix_backlinks_in_file reads its
\* file again, before any other file is written.
BacklinkReport(fix_mode, T, expected, cur, bad) ==
    \E order \in SortedOrders(UNION {expected[f] : f \in bad}) :
        /\ text' = [f \in DOMAIN text |->
                      IF fix_mode /\ f \in bad
                      THEN fix_backlinks_in_file(
                               T[f], f, SortByStem(expected[f], order))
                      ELSE text[f]]
        /\ last' = [tool |-> "bk", fix |-> fix_mode, before |-> text,
                    exit |-> BacklinkExit(bad, fix_mode),
                    written |-> IF fix_mode THEN bad ELSE {},
                    found |-> Cardinality(bad),
                    fixed |-> IF fix_mode THEN Cardinality(bad) ELSE 0,
                    reported |-> {},
                    issues |-> {[file |-> f,
                                 missing |-> expected[f] \ cur[f],
                                 extra |-> cur[f] \ expected[f],
                                 expected |-> SortByStem(expected[f], order)] :
                                    f \in bad}]
        /\ UNCHANGED call

\* verify_backlinks.main, second pass: the comparison of every Document that
\* has a block with the reverse index expected.
SecondPass(fix_mode, T, expected, cur) ==
    BacklinkReport(fix_mode, T, expected, cur,
                   {f \in DOMAIN T :
                       HasBlock(T[f]) /\ HasIssue(T[f], cur[f], expected[f])})

\* verify_backlinks.main, first pass, with the texts T it read.
FirstPass(fix_mode, T) ==
    SecondPass(fix_mode, T, reverse_links(T),
               [f \in DOMAIN T |-> current_set(T[f], f, DOMAIN T)])

\* verify_backlinks.main: both passes read every file before the first fix is
\* written, and a fix rewrites the block of its own file only.
BacklinkRun(fix_mode) == FirstPass(fix_mode, ReadAll(text))

(* ------------------------------------------------------------------ *)
(* Corpora                                                             *)
(* ------------------------------------------------------------------ *)

\* The Documents a corpus is drawn from: x.txt, a/x.txt, b/x.txt, a/y.txt.
Universe ==
    {<< <<"x">> >>, << <<"a">>, <<"x">> >>, << <<"b">>, <<"x">> >>,
     << <<"a">>, <<"y">> >>}

Corpora == {C \in SUBSET Universe : Cardinality(C) >= 2 /\ Cardinality(C) <= MaxDocs}

\* The content links a Document may start with: bare, qualified with and
\* without a leading colon, with and without a label, and a child-page link.
LinkTexts ==
    {<<"[", "[", "x", "]", "]">>,
     <<"[", "[", "+", "x", "]", "]">>,
     <<"[", "[", ":", "x", "]", "]">>,
     <<"[", "[", "a", ":", "x", "]", "]">>,
     <<"[", "[", "a", ":", "y", "|", "L", "]", "]">>}

\* The Backlinks Blocks a Document may start with (<<>>: no block).
BlockTexts ==
    {<<>>,
     <<"H", "\n", "S", "\n">>,
     <<"H", "\n", "[", "[", "x", "]", "]", "\n">>}

\* The sequences of at most n (Document, link) pairs.
RECURSIVE Placements(_, _)
Placements(C, n) ==
    IF n = 0 THEN {<<>>}
    ELSE Placements(C, n - 1)
             \cup {Append(p, <<f, l>>) :
                     p \in {q \in Placements(C, n - 1) : Len(q) = n - 1},
                     f \in C, l \in LinkTexts}

\* The content region a placement gives Document f: its links in order, each
\* on a line of its own.
RECURSIVE ContentOf(_, _)
ContentOf(f, p) ==
    IF Len(p) = 0 THEN <<>>
    ELSE (IF p[1][1] = f THEN p[1][2] \o <<"\n">> ELSE <<>>)
             \o ContentOf(f, Tail(p))

\* The line terminators the files of a corpus may have been saved with.
LineEnds == {<<"\n">>, <<"\r", "\n">>}

\* The text s with every line ending in eol.
RECURSIVE WithLineEnd(_, _)
WithLineEnd(s, eol) ==
    IF Len(s) = 0 THEN <<>>
    ELSE (IF s[1] = "\n" THEN eol ELSE <<s[1]>>)
             \o WithLineEnd(Tail(s), eol)

\* The files a run may start from on the Documents C: at most MaxLinks content
\* links and at most MaxBlocks Backlinks Blocks, all saved with the same line
\* terminator.
StartTexts(C) ==
    {[f \in C |-> WithLineEnd(ContentOf(f, p) \o b[f], eol)] :
        p \in Placements(C, MaxLinks),
        b \in {g \in [C -> BlockTexts] :
                 Cardinality({f \in C : g[f] # <<>>}) <= MaxBlocks},
        eol \in LineEnds}

\* The record of the last call of a function of the Link Resolver or of the
\* Canonical Formatter: its arguments and what it returned.
NoCall ==
    [fn |-> "none", source |-> NoFile, target |-> NoFile, link |-> <<>>,
     label |-> NoLabel, out |-> <<>>,
     res |-> [kind |-> "none", target |-> NoFile, candidates |-> {}]]

Init ==
    /\ \E C \in Corpora : text \in StartTexts(C)
    /\ last = NoRun
    /\ call = NoCall

Next ==
    \/ \E fix_mode \in BOOLEAN : ForwardRun(fix_mode)
    \/ \E fix_mode \in BOOLEAN : BacklinkRun(fix_mode)

Spec == Init /\ [][Next]_vars

(* ------------------------------------------------------------------ *)
(* Link-path normalizer                                                *)
(* ------------------------------------------------------------------ *)

\* [a-z0-9_] over the characters of the texts.
NameChars == {"a", "b", "t", "x", "y"}

\* \s over the characters of the texts.
SpaceChars == {" ", "\n"}

\* The first index k >= i with s[k] outside chars, or Len(s) + 1: where a
\* greedy character class stops.
RECURSIVE SkipWhile(_, _, _)
SkipWhile(s, i, chars) ==
    IF i > Len(s) THEN i
    ELSE IF s[i] \notin chars THEN i
    ELSE SkipWhile(s, i + 1, chars)

\* re.search(r'^([a-z0-9_][a-z0-9_]*)\s*::=', content, re.MULTILINE) from
\* index i on: group(1) of the first match, or <<>> when there is none.
RECURSIVE DeclaredFrom(_, _)
DeclaredFrom(content, i) ==
    IF i > Len(content) THEN <<>>
    ELSE LET n == SkipWhile(content, i, NameChars)
             w == SkipWhile(content, n, SpaceChars)
         IN  IF /\ (i = 1 \/ content[i - 1] = "\n")
                /\ n > i
                /\ w + 2 <= Len(content)
                /\ content[w] = ":" /\ content[w + 1] = ":"
                /\ content[w + 2] = "="
             THEN SubSeq(content, i, n - 1)
             ELSE DeclaredFrom(content, i + 1)

\* The element name a file declares (<<>>: none).
element_name(content) == DeclaredFrom(content, 1)

\* fix_all_links.build_element_index over the first k files of the walk:
\* a set of <<name, zim_path>> pairs with one pair for a name.  A declared name
\* overwrites the entry, a file name only fills a free one.
RECURSIVE build_element_index(_, _, _)
build_element_index(T, order, k) ==
    IF k = 0 THEN {}
    ELSE LET prev == build_element_index(T, order, k - 1)
             f == order[k]
             declared == element_name(T[f])
             with_declared ==
                 IF declared # <<>>
                 THEN {e \in prev : e[1] # declared} \cup {<<declared, Join(f)>>}
                 ELSE prev
         IN  IF \E e \in with_declared : e[1] = Stem(f)
             THEN with_declared
             ELSE with_declared \cup {<<Stem(f), Join(f)>>}

\* os.path.isfile(os.path.join(BASE_DIR, link_path.replace(':', '/') + '.txt')):
\* a leading colon gives an absolute path, which os.path.join returns as it
\* is and which names no file of the corpus; an empty segment elsewhere is a
\* doubled slash.
IsCorpusFile(link_path, F) ==
    /\ Split(link_path)[1] # <<>>
    /\ QualifiedTarget(Split(link_path)) \in F

\* replace_link of fix_file: the text that replaces one match.
replace_link(content, m, elements, F) ==
    LET original == SubSeq(content, m.start, m.end - 1)
        name == IF HasColon(m.link_path)
                THEN Split(m.link_path)[Len(Split(m.link_path))]
                ELSE m.link_path
        hits == {e \in elements : e[1] = name}
        target_zim == (CHOOSE e \in hits : TRUE)[2]
    IN  IF m.link_path[1] = "+" THEN original
        ELSE IF HasColon(m.link_path) /\ IsCorpusFile(m.link_path, F)
        THEN original
        ELSE IF hits # {}
        THEN <<"[", "[">> \o target_zim \o <<"|">>
                 \o (IF m.display_name # NoLabel THEN m.display_name ELSE name)
                 \o <<"]", "]">>
        ELSE original

\* re.sub(pattern, replace_link, content): the text between the matches is
\* kept, every match is replaced.
RECURSIVE SubLinks(_, _, _, _, _)
SubLinks(content, matches, k, elements, F) ==
    IF k > Len(matches)
    THEN SubSeq(content,
                IF k = 1 THEN 1 ELSE matches[k - 1].end, Len(content))
    ELSE SubSeq(content, IF k = 1 THEN 1 ELSE matches[k - 1].end,
                matches[k].start - 1)
             \o replace_link(content, matches[k], elements, F)
             \o SubLinks(content, matches, k + 1, elements, F)

\* fix_all_links.fix_file: the text of the file afterwards.
fix_file(content, elements, F) ==
    SubLinks(content, ScanLinks(content, 1, FALSE), 1, elements, F)

\* The orders os.walk can list the files in: the files of the root before
\* those of its directories, the files of one directory together.
WalkOrders(F) ==
    {order \in Perms(F) :
        \A i, j, k \in 1..Len(order) :
            /\ (i < j /\ Len(order[j]) = 1) => Len(order[i]) = 1
            /\ (i < j /\ j < k /\ Parent(order[i]) = Parent(order[k]))
                   => Parent(order[j]) = Parent(order[i])}

\* fix_all_links.main: the index is built from every file before the first
\* file is rewritten.
NormalizeRun ==
    \E order \in WalkOrders(files) :
        LET F == files
            elements == build_element_index(text, order, Len(order))
            fixed == [f \in F |-> fix_file(text[f], elements, F)]
        IN  /\ text' = fixed
            /\ last' = [NoRun EXCEPT !.tool = "norm", !.fix = TRUE,
                                     !.before = text,
                                     !.written = {f \in F : fixed[f] # text[f]},
                                     !.fixed = Cardinality(
                                                   {f \in F : fixed[f] # text[f]})]
            /\ UNCHANGED call

\* The declarations a Document may start with: none, or the element x or y.
DeclTexts ==
    {<<>>,
     <<"x", " ", ":", ":", "=", "\n">>,
     <<"y", " ", ":", ":", "=", "\n">>}

\* The texts the normalizer may start from on the Documents C.
NormTexts(C) ==
    {[f \in C |-> d[f] \o ContentOf(f, p)] :
        p \in Placements(C, MaxNormLinks), d \in [C -> DeclTexts]}

InitNorm ==
    /\ \E C \in Corpora : text \in NormTexts(C)
    /\ last = NoRun
    /\ call = NoCall

NextNorm == NormalizeRun

SpecNorm == InitNorm /\ [][NextNorm]_vars

(* ------------------------------------------------------------------ *)
(* The Link Resolver and the Canonical Formatter, called on their own  *)
(* ------------------------------------------------------------------ *)

\* The link targets the resolvers are called with.
LinkPaths ==
    {<<"x">>, <<"y">>, <<":", "x">>, <<"a", ":", "x">>, <<"b", ":", "x">>,
     <<"a", ":", "y">>, <<"b", ":", "y">>}

\* The display names the formatter is called with.
Labels == {NoLabel, <<"x">>, <<"L">>}

InitFn ==
    /\ \E C \in Corpora : text = [f \in C |-> <<>>]
    /\ last = NoRun
    /\ call = NoCall

CallResolveLinkTarget(source_file, link_path) ==
    /\ call' = [NoCall EXCEPT !.fn = "resolve_link_target",
                              !.source = source_file, !.link = link_path,
                              !.res = resolve_link_target(link_path, source_file,
                                                          files)]
    /\ UNCHANGED <<text, last>>

CallResolveLink(source_file, link) ==
    /\ call' = [NoCall EXCEPT !.fn = "resolve_link",
                              !.source = source_file, !.link = link,
                              !.target = resolve_link(link, source_file, files)]
    /\ UNCHANGED <<text, last>>

CallGetCorrectLinkFormat(source_file, target_file, display_name) ==
    /\ call' = [NoCall EXCEPT !.fn = "get_correct_link_format",
                              !.source = source_file, !.target = target_file,
                              !.label = display_name,
                              !.out = get_correct_link_format(
                                          source_file, target_file, display_name)]
    /\ UNCHANGED <<text, last>>

CallGetLinkFormat(source_file, target_file) ==
    /\ call' = [NoCall EXCEPT !.fn = "get_link_format",
                              !.source = source_file, !.target = target_file,
                              !.out = get_link_format(source_file, target_file)]
    /\ UNCHANGED <<text, last>>

NextFn ==
    \/ \E s \in files, l \in LinkPaths : CallResolveLinkTarget(s, l)
    \/ \E s \in files, l \in LinkPaths : CallResolveLink(s, l)
    \/ \E s \in files, t \in files, d \in Labels :
           CallGetCorrectLinkFormat(s, t, d)
    \/ \E s \in files, t \in files : CallGetLinkFormat(s, t)

SpecFn == InitFn /\ [][NextFn]_vars

(* ------------------------------------------------------------------ *)
(* Properties of the Link Resolver and the Canonical Formatter         *)
(* (checked under SpecFn)                                              *)
(* ------------------------------------------------------------------ *)

Resolved(target_file) ==
    [kind |-> "resolved", target |-> target_file, candidates |-> {}]

IsFormatCall == call.fn \in {"get_correct_link_format", "get_link_format"}

\* C3: the text a formatter produces for source S and target T, parsed again
\* and resolved from S against the same corpus, is one link that resolves to
\* exactly T (by the forward resolver for get_correct_link_format, by the
\* backlink resolver for get_link_format), wherever S and T are placed.
C3_FormatThenResolveGivesTarget ==
    IsFormatCall =>
        LET links == ScanLinks(call.out, 1, call.fn = "get_correct_link_format")
        IN  /\ Len(links) = 1
            /\ links[1].start = 1 /\ links[1].end = Len(call.out) + 1
            /\ IF call.fn = "get_correct_link_format"
               THEN resolve_link_target(links[1].link_path, call.source, files)
                        = Resolved(call.target)
               ELSE resolve_link(links[1].link_path, call.source, files)
                        = call.target

\* The literal path of a qualified link is no file of the corpus.
QualifiedMiss ==
    /\ call.fn \in {"resolve_link_target", "resolve_link"}
    /\ HasColon(call.link)
    /\ QualifiedTarget(Split(call.link)) \notin files

\* The Documents whose short name is the last segment of the link.
SameNamed == {f \in files : Stem(f) = Split(call.link)[Len(Split(call.link))]}

\* C4: a qualified link whose literal path is no file resolves, in both
\* resolvers, to the one Document that has its last segment as short name when
\* there is exactly one, and is unresolved when there is none.
C4_QualifiedFallback ==
    QualifiedMiss =>
        /\ Cardinality(SameNamed) = 1 =>
               IF call.fn = "resolve_link_target"
               THEN call.res.kind = "resolved" /\ call.res.target \in SameNamed
               ELSE call.target \in SameNamed
        /\ Cardinality(SameNamed) = 0 =>
               IF call.fn = "resolve_link_target"
               THEN call.res.kind = "unresolved"
               ELSE call.target = NoFile

C4_Witness ==
    /\ QualifiedMiss
    /\ call.fn = "resolve_link"
    /\ Cardinality(SameNamed) = 1
    /\ call.target \in SameNamed
    /\ Parent(call.target) # Parent(call.source)

\* A bare link was resolved by the forward resolver.
BareCall == call.fn = "resolve_link_target" /\ ~HasColon(call.link)

\* The file of that name in the source's own directory.
SameDirFile == Parent(call.source) \o <<call.link>>

\* C5: a bare link [[x]] resolves to x.txt of the source's own directory when
\* that file exists, however many other Documents are named x; when it does not
\* exist and two or more Documents are named x, the result is Ambiguous and
\* carries all of them.
C5_BareLink ==
    BareCall =>
        /\ SameDirFile \in files => call.res = Resolved(SameDirFile)
        /\ (SameDirFile \notin files /\ Cardinality(SameNamed) >= 2) =>
               /\ call.res.kind = "ambiguous"
               /\ call.res.candidates = SameNamed

C5_Witness ==
    /\ BareCall
    /\ SameDirFile \notin files
    /\ Cardinality(SameNamed) >= 2
    /\ call.res.kind = "ambiguous"

\* The label the canonical form of a cross-directory link carries.
CanonicalLabel ==
    IF call.label # NoLabel /\ call.label # Stem(call.target)
    THEN call.label
    ELSE Stem(call.target)

\* The canonical text the Canonical Formatter is specified to give.
CanonicalText ==
    IF Parent(call.source) = Parent(call.target)
    THEN IF CanonicalLabel # Stem(call.target)
         THEN <<"[", "[">> \o Stem(call.target) \o <<"|">> \o CanonicalLabel
                  \o <<"]", "]">>
         ELSE <<"[", "[">> \o Stem(call.target) \o <<"]", "]">>
    ELSE <<"[", "[">> \o Join(call.target) \o <<"|">> \o CanonicalLabel
             \o <<"]", "]">>

\* C6: the formatter gives the bare short form for a target of the source's
\* directory (labelled only by an explicit label that differs from the short
\* name) and the colon-joined path from the root with a label otherwise; any
\* source of the same directory gets the same text, and get_link_format gives
\* the text of get_correct_link_format without a label.
C6_CanonicalForm ==
    IsFormatCall =>
        /\ call.out = CanonicalText
        /\ \A s \in files :
               Parent(s) = Parent(call.source) =>
                   get_correct_link_format(s, call.target, call.label) = call.out
        /\ call.fn = "get_link_format" =>
               call.out = get_correct_link_format(call.source, call.target, NoLabel)

C6_Witness ==
    /\ call.fn = "get_link_format"
    /\ Parent(call.source) # Parent(call.target)
    /\ Len(call.target) > 1
    /\ \E s \in files : s # call.source /\ Parent(s) = Parent(call.source)

(* ------------------------------------------------------------------ *)
(* Properties of the verifier runs (checked under Spec)                *)
(* ------------------------------------------------------------------ *)

\* The texts of the files as the tools read them, now and when the last run
\* started.
now == ReadAll(text)

before == ReadAll(last.before)

BacklinkFixRan == last.tool = "bk" /\ last.fix

ForwardFixRan == last.tool = "fwd" /\ last.fix

\* The issues a forward-link run would find in the corpus T.
ForwardIssues(T) ==
    [f \in DOMAIN T |-> FileIssues(T[f], f, DOMAIN T)]

NoForwardIssue(T) == \A f \in DOMAIN T : ForwardIssues(T)[f] = <<>>

\* C1: after a fix-mode run of the backlink verifier, the links of every
\* Backlinks Block, resolved from the Document that holds the block, are exactly
\* the Documents with a content link that resolves to it, and another run would
\* find no discrepancy (and so rewrite no file).
C1_BlocksEqualReverseIndexAfterFix ==
    BacklinkFixRan =>
        /\ \A D \in files :
               HasBlock(now[D]) =>
                   current_set(now[D], D, files) = reverse_links(now)[D]
        /\ IssueFiles(now) = {}

\* Every issue of the corpus T is a wrong-format one.
OnlyFixable(T) ==
    \A f \in DOMAIN T :
        \A k \in 1..Len(ForwardIssues(T)[f]) :
            ForwardIssues(T)[f][k].type = "wrong_format"

\* C2: after a fix-mode run of the forward-link verifier on a corpus whose
\* content links were all canonical or Resolved in the wrong format, a second
\* run finds no issue (and so changes no file).
C2_SecondForwardFixFindsNothing ==
    (ForwardFixRan /\ OnlyFixable(before)) => NoForwardIssue(now)

\* The block of the text holds the sentinel literal and nothing else.
SentinelOnly(content) ==
    HasBlock(content) /\ BlockBody(content) = <<"S", "\n">>

\* The canonical links from D to the Documents of q, one on each line.
RECURSIVE CanonicalLines(_, _)
CanonicalLines(D, q) ==
    IF Len(q) = 0 THEN <<>>
    ELSE get_correct_link_format(D, q[1], NoLabel) \o <<"\n">>
             \o CanonicalLines(D, Tail(q))

\* The body is the canonical links to exactly the Documents of E, in an order
\* that ascends by short name.
IsSortedCanonicalBody(body, D, E) ==
    \E q \in Perms(E) : IsStemSorted(q) /\ body = CanonicalLines(D, q)

\* The Documents with a content link to D when the last run started.
ExpectedBefore(D) == reverse_links(before)[D]

\* C7: a backlink run reports a Document whose block holds only the sentinel
\* while Documents link to it, with every such Document as missing, and in fix
\* mode writes the canonical links to exactly those Documents as the block
\* body, ascending by short name; a sentinel-only block that no Document links
\* to is not reported, and a fix for an empty expected set writes the sentinel.
C7_SentinelBlock ==
    last.tool = "bk" =>
        \A D \in files :
            /\ (SentinelOnly(before[D]) /\ ExpectedBefore(D) # {}) =>
                   /\ \E i \in last.issues :
                          i.file = D /\ i.missing = ExpectedBefore(D)
                   /\ last.fix =>
                          /\ HasBlock(now[D])
                          /\ IsSortedCanonicalBody(BlockBody(now[D]), D,
                                                   ExpectedBefore(D))
            /\ (SentinelOnly(before[D]) /\ ExpectedBefore(D) = {}) =>
                   /\ \A i \in last.issues : i.file # D
                   /\ now[D] = before[D]
            /\ (last.fix /\ D \in last.written /\ ExpectedBefore(D) = {}) =>
                   SentinelOnly(now[D])

C7_Witness ==
    /\ BacklinkFixRan
    /\ \E D \in files :
           /\ SentinelOnly(before[D])
           /\ \E s, t \in ExpectedBefore(D) : StemLess(Stem(s), Stem(t))
           /\ D \in last.written
           /\ ~SentinelOnly(now[D])

\* The links of the content region of a text, with their spans.
ContentLinks(content) ==
    find_all_links(SubSeq(content, 1, HeaderStart(content) - 1))

\* The text of the k-th content link.
ContentLinkText(content, k) ==
    FullMatch(content, ContentLinks(content)[k])

\* What the k-th content link of f resolved to when the last run started.
ClassBefore(f, k) ==
    LET r == resolve_link_target(ContentLinks(before[f])[k].link_path,
                                 f, files)
    IN  IF r.kind # "resolved" THEN r.kind
        ELSE IF ContentLinkText(before[f], k)
                    = get_correct_link_format(
                          f, r.target,
                          ContentLinks(before[f])[k].display_name)
        THEN "ok"
        ELSE "wrong_format"

\* C8: a fix-mode forward-link run leaves the text of every content link it
\* classified Unresolved or Ambiguous as it was (the content region has the
\* same number of links afterwards, and the link at the same place has the
\* same text), and reports each of them as an issue.
C8_UnfixableLinksKept ==
    ForwardFixRan =>
        \A f \in files :
            /\ Len(ContentLinks(now[f])) = Len(ContentLinks(before[f]))
            /\ \A k \in 1..Len(ContentLinks(before[f])) :
                   ClassBefore(f, k) \in {"unresolved", "ambiguous"} =>
                       /\ ContentLinkText(now[f], k)
                              = ContentLinkText(before[f], k)
                       /\ <<f, ContentLinks(before[f])[k].start,
                            ClassBefore(f, k)>> \in last.reported

C8_Witness ==
    /\ ForwardFixRan
    /\ \E f \in last.written :
           \E j, k \in 1..Len(ContentLinks(before[f])) :
               /\ j < k
               /\ ClassBefore(f, j) = "wrong_format"
               /\ ClassBefore(f, k) \in {"unresolved", "ambiguous"}
               /\ ContentLinks(now[f])[k].start
                      # ContentLinks(before[f])[k].start

\* C9 as stated: the exit status of a verifier run is 0 exactly when no issue
\* remains in the corpus after the run.
C9_ExitZeroIffNothingRemains ==
    /\ last.tool = "fwd" => (last.exit = 0 <=> NoForwardIssue(now))
    /\ last.tool = "bk" => (last.exit = 0 <=> IssueFiles(now) = {})

\* C9, amended: the exit status of a verifier run is 0 exactly when the run
\* found no issue in the corpus it started from, whether or not it then fixed
\* what it found.
C9_ExitZeroIffNothingFound ==
    /\ last.tool = "fwd" => (last.exit = 0 <=> NoForwardIssue(before))
    /\ last.tool = "bk" => (last.exit = 0 <=> IssueFiles(before) = {})

C9_Witness ==
    /\ last.tool \in {"fwd", "bk"}
    /\ last.fix
    /\ last.found > 0
    /\ last.fixed = last.found
    /\ last.exit = 1
    /\ NoForwardIssue(now)
    /\ IssueFiles(now) = {}

\* The part of a text before the Backlinks header, and the part from the
\* header to the end of the file.
ContentPart(content) == SubSeq(content, 1, HeaderStart(content) - 1)

BlockPart(content) == SubSeq(content, HeaderStart(content), Len(content))

\* The text c from position pos on, with every link of links from the k-th on
\* replaced by a mark: what is left is the text that belongs to no link.
RECURSIVE OutsideLinks(_, _, _, _)
OutsideLinks(c, links, k, pos) ==
    IF k > Len(links) THEN SubSeq(c, pos, Len(c))
    ELSE SubSeq(c, pos, links[k].start - 1) \o <<"<link>">>
             \o OutsideLinks(c, links, k + 1, links[k].end)

\* The content region of a text without its links; a child-page link is no
\* link of the forward-link verifier and stays in.
NonLinkText(content) ==
    OutsideLinks(ContentPart(content), find_all_links(ContentPart(content)),
                 1, 1)

\* Some content link of f was Resolved in the wrong format when the last run
\* started.
HadWrongFormat(f) ==
    \E k \in 1..Len(ContentLinks(before[f])) : ClassBefore(f, k) = "wrong_format"

\* C11: a forward-link run without fix mode writes no file; in fix mode a file
\* is written only if a wrong-format link of it was replaced, and the bytes of
\* a written file from the Backlinks header to the end, and the bytes of its
\* content region outside the links (child-page links included), are those
\* the file had before the run.
C11_ForwardWritePreservesBytes ==
    last.tool = "fwd" =>
        /\ ~last.fix => (last.written = {} /\ text = last.before)
        /\ \A f \in files :
               /\ f \notin last.written => text[f] = last.before[f]
               /\ f \in last.written =>
                      /\ HadWrongFormat(f)
                      /\ BlockPart(text[f]) = BlockPart(last.before[f])
                      /\ NonLinkText(text[f]) = NonLinkText(last.before[f])

\* The same frame for the texts as the tool reads them: what a forward-link
\* run writes differs from the text it read in the replaced links only.
ForwardWritePreservesTextRead ==
    last.tool = "fwd" =>
        /\ ~last.fix => (last.written = {} /\ text = last.before)
        /\ \A f \in files :
               /\ f \notin last.written => text[f] = last.before[f]
               /\ f \in last.written =>
                      /\ HadWrongFormat(f)
                      /\ BlockPart(now[f]) = BlockPart(before[f])
                      /\ NonLinkText(now[f]) = NonLinkText(before[f])

\* The end of the line of the first Backlinks header that ends its line, in
\* the bytes of a file: the header may be followed by "\n" or by "\r\n".  0
\* when there is no such header.
RECURSIVE HeaderLineEnd(_, _)
HeaderLineEnd(bytes, i) ==
    IF i + 1 > Len(bytes) THEN 0
    ELSE IF bytes[i] = "H" /\ bytes[i + 1] = "\n" THEN i + 1
    ELSE IF bytes[i] = "H" /\ bytes[i + 1] = "\r" /\ i + 2 <= Len(bytes)
                /\ bytes[i + 2] = "\n" THEN i + 2
    ELSE HeaderLineEnd(bytes, i + 1)

\* The bytes of a file up to and including its Backlinks header line.
ThroughHeader(bytes) == SubSeq(bytes, 1, HeaderLineEnd(bytes, 1))

\* C12: a backlink run writes no file without fix mode and never a Document
\* that has no Backlinks Block; the bytes of a rewritten Document up to and
\* including the header line are those it had before the run; the content
\* links of every Document, and the reverse index, are the same after the run.
C12_BacklinkWritePreservesBytes ==
    last.tool = "bk" =>
        /\ ~last.fix => (last.written = {} /\ text = last.before)
        /\ \A f \in files :
               /\ f \notin last.written => text[f] = last.before[f]
               /\ f \in last.written =>
                      /\ HasBlock(before[f])
                      /\ ThroughHeader(text[f]) = ThroughHeader(last.before[f])
               /\ extract_links(now[f]) = extract_links(before[f])
        /\ reverse_links(now) = reverse_links(before)

\* The same frame for the texts as the tool reads them.
BacklinkWritePreservesTextRead ==
    last.tool = "bk" =>
        /\ ~last.fix => (last.written = {} /\ text = last.before)
        /\ \A f \in files :
               /\ f \notin last.written => text[f] = last.before[f]
               /\ f \in last.written =>
                      /\ HasBlock(before[f])
                      /\ ThroughHeader(now[f]) = ThroughHeader(before[f])
               /\ extract_links(now[f]) = extract_links(before[f])
        /\ reverse_links(now) = reverse_links(before)

\* The places, among the content links of f, of the links that were Resolved
\* in the wrong format when the last run started.
WrongFormatPlaces(f) ==
    {k \in 1..Len(ContentLinks(before[f])) : ClassBefore(f, k) = "wrong_format"}

\* The content region c of f after the links at the places of q are replaced
\* one at a time, in the order of q, each at the span a fresh parse of the
\* current text gives it.
RECURSIVE OneAtATime(_, _, _)
OneAtATime(c, f, q) ==
    IF Len(q) = 0 THEN c
    ELSE IF q[1] > Len(find_all_links(c)) THEN <<"<lost>">>
    ELSE OneAtATime(
             ReplaceSpan(c, ClassifyLink(c, find_all_links(c)[q[1]], f, files)),
             f, Tail(q))

\* The spans of the links of a content region are not empty and do not
\* overlap.
SpansDisjoint(c) ==
    \A k \in 1..Len(find_all_links(c)) :
        /\ find_all_links(c)[k].start < find_all_links(c)[k].end
        /\ k > 1 => find_all_links(c)[k - 1].end <= find_all_links(c)[k].start

\* C13: the content region a fix-mode forward-link run leaves in a Document
\* (the wrong-format links replaced at the spans of one parse, last span
\* first) is the one that replacing the same links one at a time gives, with a
\* fresh parse before each replacement, whatever the order; and the spans of a
\* parse never overlap.
C13_BatchFixEqualsOneAtATime ==
    /\ \A f \in files : SpansDisjoint(ContentPart(now[f]))
    /\ ForwardFixRan =>
           \A f \in files :
               \A q \in Perms(WrongFormatPlaces(f)) :
                   OneAtATime(ContentPart(before[f]), f, q)
                       = ContentPart(now[f])

C13_Witness ==
    /\ ForwardFixRan
    /\ \E f \in last.written :
           \E j, k \in WrongFormatPlaces(f) :
               /\ j < k
               /\ ContentLinks(now[f])[k].start
                      # ContentLinks(before[f])[k].start

\* What the forward-link verifier resolves the k-th content link of f to, in
\* the corpus T.
ResolutionOf(T, f, k) ==
    resolve_link_target(ContentLinks(T[f])[k].link_path, f, DOMAIN T)

\* C14: after a fix-mode forward-link run every Document has the content
\* links it had, each with the resolution outcome (target, Ambiguous or
\* Unresolved) it had when the run started, and the reverse index of the
\* backlink verifier is the one of the corpus before the run.
C14_ForwardFixKeepsResolution ==
    ForwardFixRan =>
        /\ \A f \in files :
               /\ Len(ContentLinks(now[f])) = Len(ContentLinks(before[f]))
               /\ \A k \in 1..Len(ContentLinks(before[f])) :
                      ResolutionOf(now, f, k) = ResolutionOf(before, f, k)
        /\ reverse_links(now) = reverse_links(before)

(* ------------------------------------------------------------------ *)
(* Properties of the link-path normalizer (checked under SpecNorm)     *)
(* ------------------------------------------------------------------ *)

\* All links of a text, child-page links and links of the block included.
AllLinks(content) == ScanLinks(content, 1, FALSE)

\* The last segment of the target of a link.
LinkName(link_path) == Split(link_path)[Len(Split(link_path))]

\* The Documents of the corpus T that carry the name, as file name or as the
\* element they declare.
Carrying(T, name) ==
    {g \in DOMAIN T : Stem(g) = name \/ element_name(T[g]) = name}

\* C10: the normalizer leaves a link as it is when two or more Documents carry
\* its name (as file name or as declared element) and when no Document does, and
\* every link it rewrites names a file that exists at the literal qualified path.
C10_OnlyUnambiguousRewritten ==
    last.tool = "norm" =>
        \A f \in files :
            LET lb == AllLinks(last.before[f])
                la == AllLinks(text[f])
            IN  /\ Len(la) = Len(lb)
                /\ \A k \in 1..Len(lb) :
                       /\ Cardinality(Carrying(last.before, LinkName(lb[k].link_path))) # 1
                              => FullMatch(text[f], la[k])
                                     = FullMatch(last.before[f], lb[k])
                       /\ FullMatch(text[f], la[k])
                                 # FullMatch(last.before[f], lb[k])
                              => QualifiedTarget(Split(la[k].link_path)) \in files

====
